---- MODULE Spec2Model ----
(***************************************************************************)
(* linksys_mon.py: a command-line tool that asks a Linksys router for its  *)
(* device inventory and for the MAC addresses that are online, and prints  *)
(* the devices as an online and an offline section.                        *)
(*                                                                         *)
(* Strings are sequences of one-character strings.  Python's None is the   *)
(* empty tuple and a present Optional value v is <<v>>.  A JSON value is a *)
(* tagged record: [k |-> "val", v |-> payload] is a value the declared     *)
(* type of its field accepts, [k |-> "null"] is JSON null, [k |-> "bad"]   *)
(* is a value the declared type rejects.  A JSON object is a function from *)
(* the keys it carries to JSON values.                                     *)
(***************************************************************************)
EXTENDS Integers, Sequences, FiniteSets, TLC

VARIABLES
    pc,               \* position of the process
    env,              \* the environment after load_dotenv(): which credentials are set
    args,             \* argparse namespace: online, offline, friendly, mac
    router,           \* the router: what each endpoint answers
    cache,            \* lru_cache of get_devices
    requests,         \* HTTP requests issued so far, in order
    devices,          \* main: devices
    online_macs,      \* main: online_macs
    device_statuses,  \* main: device_statuses
    online,           \* main: online
    offline,          \* main: offline
    out,              \* what was printed to standard output, section by section
    exitCode,         \* exit status of the process, -1 while it runs
    call,             \* arguments of the function under test / log of calls
    ret               \* its result

vars == <<pc, env, args, router, cache, requests, devices, online_macs,
          device_statuses, online, offline, out, exitCode, call, ret>>

mainVars == <<env, args, router, cache, requests, devices, online_macs,
              device_statuses, online, offline, out, exitCode>>

----------------------------------------------------------------------------
(* Bounds of the model                                                     *)

MaxDevices == 2      \* devices in one inventory answer
MaxInterfaces == 2   \* knownInterfaces of the devices the pure functions are tried on
MaxDefects == 1      \* defective JSON values in one device record
MaxCalls == 3        \* calls of get_devices in one process

(* src/linksys_mon.py:214, the length of a UUID in text form *)
UUIDLen == 36

----------------------------------------------------------------------------
(* Strings: str.lower(), str.upper(), the `in` substring test              *)

None == <<>>
Some(v) == <<v>>

LowerLetters == <<"a", "b", "t", "v">>
UpperLetters == <<"A", "B", "T", "V">>

LowerChar(c) ==
    IF \E i \in 1..Len(UpperLetters) : UpperLetters[i] = c
    THEN LowerLetters[CHOOSE i \in 1..Len(UpperLetters) : UpperLetters[i] = c]
    ELSE c

UpperChar(c) ==
    IF \E i \in 1..Len(LowerLetters) : LowerLetters[i] = c
    THEN UpperLetters[CHOOSE i \in 1..Len(LowerLetters) : LowerLetters[i] = c]
    ELSE c

Lower(s) == [i \in 1..Len(s) |-> LowerChar(s[i])]
Upper(s) == [i \in 1..Len(s) |-> UpperChar(s[i])]

\* needle in hay
Contains(hay, needle) ==
    \E i \in 0..(Len(hay) - Len(needle)) :
        \A j \in 1..Len(needle) : hay[i + j] = needle[j]

\* x or "" for an Optional[str] x
OrEmpty(x) == IF x = None THEN <<>> ELSE x[1]

\* truth value of an Optional[str]: None and "" are false
Truthy(x) == x # None /\ Len(x[1]) > 0

Repeat(c, n) == [i \in 1..n |-> c]

----------------------------------------------------------------------------
(* JSON values and the pydantic models                                     *)

V(payload) == [k |-> "val", v |-> payload]
Null == [k |-> "null"]
Bad == [k |-> "bad"]
EmptyDict == [x \in {} |-> Null]

Has(d, key) == key \in DOMAIN d

\* a field declared without a default: must be present with an accepted value
Required(d, key) == Has(d, key) /\ d[key].k = "val"

\* a field declared Optional[...] = None: absent, null or an accepted value
Optional(d, key) == ~Has(d, key) \/ d[key].k \in {"val", "null"}

OptGet(d, key) ==
    IF Has(d, key) /\ d[key].k = "val" THEN Some(d[key].v) ELSE None

\* X(**j): j must be a mapping
IsDict(j) == j.k = "val"

ModelValid(j) ==
    /\ IsDict(j)
    /\ Required(j.v, "deviceType")
    /\ \A f \in {"manufacturer", "modelNumber", "hardwareVersion", "description"} :
          Optional(j.v, f)

Model(j) ==
    [deviceType |-> j.v.deviceType.v,
     manufacturer |-> OptGet(j.v, "manufacturer"),
     modelNumber |-> OptGet(j.v, "modelNumber"),
     hardwareVersion |-> OptGet(j.v, "hardwareVersion"),
     description |-> OptGet(j.v, "description")]

UnitValid(j) ==
    /\ IsDict(j)
    /\ \A f \in {"serialNumber", "firmwareVersion", "firmwareDate"} : Optional(j.v, f)

Unit(j) ==
    [serialNumber |-> OptGet(j.v, "serialNumber"),
     firmwareVersion |-> OptGet(j.v, "firmwareVersion"),
     firmwareDate |-> OptGet(j.v, "firmwareDate")]

InterfaceValid(j) ==
    /\ IsDict(j)
    /\ Required(j.v, "macAddress")
    /\ Required(j.v, "interfaceType")
    /\ Optional(j.v, "band")

Interface(j) ==
    [macAddress |-> j.v.macAddress.v,
     interfaceType |-> j.v.interfaceType.v,
     band |-> OptGet(j.v, "band")]

ConnectionValid(j) ==
    /\ IsDict(j)
    /\ Required(j.v, "macAddress")
    /\ \A f \in {"ipAddress", "ipv6Address", "parentDeviceID"} : Optional(j.v, f)

Connection(j) ==
    [macAddress |-> j.v.macAddress.v,
     ipAddress |-> OptGet(j.v, "ipAddress"),
     ipv6Address |-> OptGet(j.v, "ipv6Address"),
     parentDeviceID |-> OptGet(j.v, "parentDeviceID")]

PropertyValid(j) ==
    /\ IsDict(j)
    /\ Required(j.v, "name")
    /\ Required(j.v, "value")

Property(j) == [name |-> j.v.name.v, value |-> j.v.value.v]

\* as DeviceValid, had friendlyName been declared `friendlyName: str`
DeviceValid_required_name(d) ==
    /\ Required(d, "deviceID")
    /\ Required(d, "lastChangeRevision")
    /\ Required(d, "isAuthority")
    /\ Optional(d, "nodeType")
    /\ Required(d, "friendlyName")
    /\ Required(d, "maxAllowedProperties")

\* Device(**device_data): the fields parse_device did not convert itself
DeviceValid(d) ==
    /\ Required(d, "deviceID")
    /\ Required(d, "lastChangeRevision")
    /\ Required(d, "isAuthority")
    /\ Optional(d, "nodeType")
    /\ Optional(d, "friendlyName")
    /\ Required(d, "maxAllowedProperties")

\* device[key] raises KeyError when the key is absent; iterating it raises
\* when it is no list
IsList(d, key) == Has(d, key) /\ d[key].k = "val"

\* get_devices.parse_device: the parsed Device, or an exception (ok = FALSE)
parse_device(device) ==
    IF /\ Has(device, "model") /\ ModelValid(device.model)
       /\ Has(device, "unit") /\ UnitValid(device.unit)
       /\ IsList(device, "knownInterfaces")
       /\ \A i \in 1..Len(device.knownInterfaces.v) :
             InterfaceValid(device.knownInterfaces.v[i])
       /\ IsList(device, "connections")
       /\ \A i \in 1..Len(device.connections.v) :
             ConnectionValid(device.connections.v[i])
       /\ IsList(device, "properties")
       /\ \A i \in 1..Len(device.properties.v) :
             PropertyValid(device.properties.v[i])
       /\ DeviceValid(device)
    THEN [ok |-> TRUE,
          device |->
            [deviceID |-> device.deviceID.v,
             lastChangeRevision |-> device.lastChangeRevision.v,
             model |-> Model(device.model),
             unit |-> Unit(device.unit),
             isAuthority |-> device.isAuthority.v,
             nodeType |-> OptGet(device, "nodeType"),
             friendlyName |-> OptGet(device, "friendlyName"),
             knownInterfaces |->
                [i \in 1..Len(device.knownInterfaces.v) |->
                    Interface(device.knownInterfaces.v[i])],
             connections |->
                [i \in 1..Len(device.connections.v) |->
                    Connection(device.connections.v[i])],
             properties |->
                [i \in 1..Len(device.properties.v) |->
                    Property(device.properties.v[i])],
             maxAllowedProperties |-> device.maxAllowedProperties.v]]
    ELSE [ok |-> FALSE]

----------------------------------------------------------------------------
(* The functions of the program                                            *)

NoCache == [hit |-> FALSE, value |-> <<>>]

AllOk(parsed) == \A i \in 1..Len(parsed) : parsed[i].ok

\* as get_devices, without the @lru_cache() decorator
get_devices_uncached(c, reply) ==
    LET parsed == IF reply.k = "val"
                  THEN [i \in 1..Len(reply.v) |-> parse_device(reply.v[i])]
                  ELSE <<>>
        value == [i \in 1..Len(parsed) |-> parsed[i].device]
    IN  IF reply.k = "val" /\ AllOk(parsed)
        THEN [cache |-> c, sent |-> TRUE, ok |-> TRUE, value |-> value]
        ELSE [cache |-> c, sent |-> TRUE, ok |-> FALSE, value |-> <<>>]

\* as get_devices, skipping the records that do not parse
get_devices_skip_bad(c, reply) ==
    IF c.hit
    THEN [cache |-> c, sent |-> FALSE, ok |-> TRUE, value |-> c.value]
    ELSE
        LET parsed == IF reply.k = "val"
                      THEN [i \in 1..Len(reply.v) |-> parse_device(reply.v[i])]
                      ELSE <<>>
            good == SelectSeq(parsed, LAMBDA r : r.ok)
            value == [i \in 1..Len(good) |-> good[i].device]
        IN  IF reply.k = "val"
            THEN [cache |-> [hit |-> TRUE, value |-> value],
                  sent |-> TRUE, ok |-> TRUE, value |-> value]
            ELSE [cache |-> c, sent |-> TRUE, ok |-> FALSE, value |-> <<>>]

\* get_devices() under functools.lru_cache: c is the cache before the call and
\* reply what the router answers if it is asked.  A call that raises stores
\* nothing in the cache.
get_devices(c, reply) ==
    IF c.hit
    THEN [cache |-> c, sent |-> FALSE, ok |-> TRUE, value |-> c.value]
    ELSE
        LET parsed == IF reply.k = "val"
                      THEN [i \in 1..Len(reply.v) |-> parse_device(reply.v[i])]
                      ELSE <<>>
            value == [i \in 1..Len(parsed) |-> parsed[i].device]
        IN  IF reply.k = "val" /\ AllOk(parsed)
            THEN [cache |-> [hit |-> TRUE, value |-> value],
                  sent |-> TRUE, ok |-> TRUE, value |-> value]
            ELSE [cache |-> c, sent |-> TRUE, ok |-> FALSE, value |-> <<>>]

\* get_online_macs(): reply.v is response["output"]["nodeWirelessConnections"],
\* one sequence of connection MAC addresses per node
get_online_macs(reply) ==
    IF reply.k = "val"
    THEN [ok |-> TRUE,
          value |-> UNION {{reply.v[n][c] : c \in 1..Len(reply.v[n])} :
                              n \in 1..Len(reply.v)}]
    ELSE [ok |-> FALSE, value |-> {}]

HasMac(d, mac) ==
    \E i \in 1..Len(d.knownInterfaces) : d.knownInterfaces[i].macAddress = mac

\* as filter_devices, with the second `if` turned into `elif`
filter_devices_elif(devs, friendly_name, mac_address) ==
    LET NameTest(d) ==
            Contains(Lower(OrEmpty(d.friendlyName)), Lower(friendly_name[1]))
        MacTest(d) == HasMac(d, Upper(mac_address[1]))
    IN  IF Truthy(friendly_name) THEN SelectSeq(devs, NameTest)
        ELSE IF Truthy(mac_address) THEN SelectSeq(devs, MacTest)
        ELSE devs

filter_devices(devs, friendly_name, mac_address) ==
    LET NameTest(d) ==
            Contains(Lower(OrEmpty(d.friendlyName)), Lower(friendly_name[1]))
        MacTest(d) == HasMac(d, Upper(mac_address[1]))
        named == IF Truthy(friendly_name) THEN SelectSeq(devs, NameTest) ELSE devs
    IN  IF Truthy(mac_address) THEN SelectSeq(named, MacTest) ELSE named

\* as get_device_status, reading the device's connections instead of its
\* knownInterfaces for is_online
get_device_status_connections(device, macs) ==
    LET IsOnline(i) == i.macAddress \in macs
        online_interfaces == SelectSeq(device.knownInterfaces, IsOnline)
    IN  [device |-> device,
         is_online |-> \E i \in 1..Len(device.connections) :
                          device.connections[i].macAddress \in macs,
         online_interfaces |-> online_interfaces]

get_device_status(device, macs) ==
    LET IsOnline(i) == i.macAddress \in macs
        online_interfaces == SelectSeq(device.knownInterfaces, IsOnline)
    IN  [device |-> device,
         is_online |-> online_interfaces # <<>>,
         online_interfaces |-> online_interfaces]

\* as LooksLikeUUID, with `or` in place of `and`
LooksLikeUUID_or(d) ==
    \/ Len(OrEmpty(d.friendlyName)) = UUIDLen
    \/ \E i \in 1..Len(OrEmpty(d.friendlyName)) : OrEmpty(d.friendlyName)[i] = "-"

\* main, line 214: the friendly name looks like a bare UUID
LooksLikeUUID(d) ==
    /\ Len(OrEmpty(d.friendlyName)) = UUIDLen
    /\ \E i \in 1..Len(OrEmpty(d.friendlyName)) : OrEmpty(d.friendlyName)[i] = "-"

----------------------------------------------------------------------------
(* The data the model is run on                                            *)

MacUpper == <<"A", "A", ":", "B", "B">>
MacLower == <<"a", "a", ":", "b", "b">>
MacMixed == <<"A", "a", ":", "B", "b">>
MacOther == <<"B", "B", ":", "A", "T">>

NameTv == <<"T", "v">>
NameUUID == Repeat("a", 8) \o <<"-">> \o Repeat("b", UUIDLen - 9)
NamePlain36 == Repeat("a", UUIDLen)
NameShortHyphen == Repeat("b", UUIDLen - 2) \o <<"-">>

RawInterface(mac) ==
    V([macAddress |-> V(mac), interfaceType |-> V("Wireless")])

RawInterfaces(macs) == V([i \in 1..Len(macs) |-> RawInterface(macs[i])])

RawConnection(mac) == V([macAddress |-> V(mac)])

\* a device record as the router sends it: name is an Optional[str] (None: the
\* record carries no friendlyName), macs the MAC addresses of its interfaces,
\* conns those of its connections
RawDeviceWith(id, name, macs, conns) ==
    LET full ==
            [deviceID |-> V(id),
             lastChangeRevision |-> V(1),
             model |-> V([deviceType |-> V("Mobile")]),
             unit |-> V(EmptyDict),
             isAuthority |-> V(FALSE),
             friendlyName |-> IF name = None THEN Null ELSE V(name[1]),
             knownInterfaces |-> RawInterfaces(macs),
             connections |-> V([i \in 1..Len(conns) |-> RawConnection(conns[i])]),
             properties |-> V(<<>>),
             maxAllowedProperties |-> V(16)]
    IN  IF name = None
        THEN [key \in DOMAIN full \ {"friendlyName"} |-> full[key]]
        ELSE full

RawDevice(id, name, macs) == RawDeviceWith(id, name, macs, <<MacOther>>)

\* the record of RawDevice without its unit: parse_device raises on it
RawDeviceNoUnit(id, name, macs) ==
    LET full == RawDevice(id, name, macs)
    IN  [key \in DOMAIN full \ {"unit"} |-> full[key]]

\* the kinds of device an inventory answer is made of
Kinds == {"tv", "bare", "uuid", "plain36", "short", "nounit"}

RawOfKind(kind, id) ==
    CASE kind = "tv"      -> RawDevice(id, Some(NameTv), <<MacUpper>>)
      [] kind = "bare"    -> RawDevice(id, None, <<>>)
      [] kind = "uuid"    -> RawDevice(id, Some(NameUUID), <<MacUpper>>)
      [] kind = "plain36" -> RawDevice(id, Some(NamePlain36), <<MacLower>>)
      [] kind = "short"   -> RawDevice(id, Some(NameShortHyphen), <<MacOther, MacUpper>>)
      [] kind = "nounit"  -> RawDeviceNoUnit(id, Some(NameTv), <<MacUpper>>)

KindLists(n) == UNION {[1..m -> Kinds] : m \in 0..n}

\* what the router may answer to GetDevices3: no answer or no JSON (neterr),
\* JSON without the envelope (bad), or an inventory
InventoryOf(kinds) == V([i \in 1..Len(kinds) |-> RawOfKind(kinds[i], i)])

InventoryReplies ==
    {[k |-> "neterr"], Bad} \cup {InventoryOf(kinds) : kinds \in KindLists(MaxDevices)}

\* what the router may answer to GetNodesWirelessNetworkConnections
OnlineReplies ==
    {[k |-> "neterr"], Bad,
     V(<<>>),
     V(<< <<MacLower>>, <<>> >>),
     V(<< <<MacOther>>, <<MacUpper, MacOther>> >>)}

FriendlyArgs == {None, Some(<<"t", "V">>), Some(<<"-">>)}
MacArgs == {None, Some(MacLower), Some(MacUpper)}

----------------------------------------------------------------------------
(* One run of the program: module load, then main()                        *)

NoArgs == [online |-> FALSE, offline |-> FALSE, friendly |-> None, mac |-> None]

Idle ==
    /\ args = NoArgs
    /\ cache = NoCache
    /\ requests = <<>>
    /\ devices = <<>>
    /\ online_macs = {}
    /\ device_statuses = <<>>
    /\ online = <<>>
    /\ offline = <<>>
    /\ out = <<>>
    /\ exitCode = -1

Init ==
    /\ pc = "import"
    /\ env \in [LINKSYS_USERNAME : BOOLEAN, LINKSYS_PASSWORD : BOOLEAN]
    /\ router \in [inventory : InventoryReplies, online : OnlineReplies]
    /\ Idle
    /\ call = <<>>
    /\ ret = <<>>

\* an uncaught exception: the interpreter prints the traceback to standard
\* error and exits with status 1
Raise ==
    /\ pc' = "crashed"
    /\ exitCode' = 1

\* lines 23-34: os.environ[...] raises KeyError for a variable that is not set
LoadModule ==
    /\ pc = "import"
    /\ IF env.LINKSYS_USERNAME /\ env.LINKSYS_PASSWORD
       THEN pc' = "parse_args" /\ UNCHANGED exitCode
       ELSE Raise
    /\ UNCHANGED <<env, args, router, cache, requests, devices, online_macs,
                   device_statuses, online, offline, out, call, ret>>

\* lines 197-208
ParseArgs ==
    /\ pc = "parse_args"
    /\ \E on \in BOOLEAN, off \in BOOLEAN, f \in FriendlyArgs, m \in MacArgs :
          args' = [online |-> on, offline |-> off, friendly |-> f, mac |-> m]
    /\ pc' = "get_devices"
    /\ UNCHANGED <<env, router, cache, requests, devices, online_macs,
                   device_statuses, online, offline, out, exitCode, call, ret>>

Request(action, ok) == [action |-> action, ok |-> ok]

Keep(d) == ~LooksLikeUUID(d)

\* lines 211-215
GetDevices ==
    /\ pc = "get_devices"
    /\ LET r == get_devices(cache, router.inventory)
       IN  /\ cache' = r.cache
           /\ requests' = IF r.sent
                           THEN Append(requests, Request("GetDevices3", r.ok))
                           ELSE requests
           /\ IF r.ok
              THEN /\ devices' = SelectSeq(r.value, Keep)
                   /\ pc' = "filter"
                   /\ UNCHANGED exitCode
              ELSE /\ Raise
                   /\ UNCHANGED devices
    /\ UNCHANGED <<env, args, router, online_macs, device_statuses, online,
                   offline, out, call, ret>>

\* line 216
Filter ==
    /\ pc = "filter"
    /\ devices' = filter_devices(devices, args.friendly, args.mac)
    /\ pc' = "get_online_macs"
    /\ UNCHANGED <<env, args, router, cache, requests, online_macs,
                   device_statuses, online, offline, out, exitCode, call, ret>>

\* as GetOnlineMacs, asking the router only when a device is left
GetOnlineMacs_when_needed ==
    /\ pc = "get_online_macs"
    /\ LET r == get_online_macs(router.online)
       IN  IF devices = <<>>
           THEN /\ online_macs' = {}
                /\ pc' = "reconcile"
                /\ UNCHANGED <<requests, exitCode>>
           ELSE /\ requests' = Append(requests,
                       Request("GetNodesWirelessNetworkConnections", r.ok))
                /\ IF r.ok
                   THEN /\ online_macs' = r.value
                        /\ pc' = "reconcile"
                        /\ UNCHANGED exitCode
                   ELSE /\ Raise
                        /\ UNCHANGED online_macs
    /\ UNCHANGED <<env, args, router, cache, devices, device_statuses, online,
                   offline, out, call, ret>>

\* line 219
GetOnlineMacs ==
    /\ pc = "get_online_macs"
    /\ LET r == get_online_macs(router.online)
       IN  /\ requests' = Append(requests,
                  Request("GetNodesWirelessNetworkConnections", r.ok))
           /\ IF r.ok
              THEN /\ online_macs' = r.value
                   /\ pc' = "reconcile"
                   /\ UNCHANGED exitCode
              ELSE /\ Raise
                   /\ UNCHANGED online_macs
    /\ UNCHANGED <<env, args, router, cache, devices, device_statuses, online,
                   offline, out, call, ret>>

\* line 223
IsOnlineStatus(s) == s.is_online

\* as IsOfflineStatus, counting a device without interfaces as neither
IsOfflineStatus_with_interfaces(s) ==
    ~s.is_online /\ s.device.knownInterfaces # <<>>

\* line 224
IsOfflineStatus(s) == ~s.is_online

\* lines 220-224
Reconcile ==
    /\ pc = "reconcile"
    /\ LET statuses == [i \in 1..Len(devices) |->
                           get_device_status(devices[i], online_macs)]
       IN  /\ device_statuses' = statuses
           /\ online' = SelectSeq(statuses, IsOnlineStatus)
           /\ offline' = SelectSeq(statuses, IsOfflineStatus)
    /\ pc' = "print_online"
    /\ UNCHANGED <<env, args, router, cache, requests, devices, online_macs,
                   out, exitCode, call, ret>>

\* print_online_devices, print_offline_devices: one row per status, in order;
\* a row is recorded by the device it shows
Printed(statuses) == [i \in 1..Len(statuses) |-> statuses[i].device.deviceID]

\* as ShowOnline, for flags taken to be mutually exclusive
ShowOnline_exclusive(a) == ~a.offline
ShowOnline(a) == ~a.offline \/ a.online
ShowOffline(a) == ~a.online \/ a.offline
ShowSummary(a) == ~a.online /\ ~a.offline

\* lines 227-228
PrintOnline ==
    /\ pc = "print_online"
    /\ out' = IF ShowOnline(args)
              THEN Append(out, [section |-> "online", rows |-> Printed(online)])
              ELSE out
    /\ pc' = "print_offline"
    /\ UNCHANGED <<env, args, router, cache, requests, devices, online_macs,
                   device_statuses, online, offline, exitCode, call, ret>>

\* lines 229-230
PrintOffline ==
    /\ pc = "print_offline"
    /\ out' = IF ShowOffline(args)
              THEN Append(out, [section |-> "offline", rows |-> Printed(offline)])
              ELSE out
    /\ pc' = "print_summary"
    /\ UNCHANGED <<env, args, router, cache, requests, devices, online_macs,
                   device_statuses, online, offline, exitCode, call, ret>>

\* lines 232-236
FilterMsg(a) ==
    IF Truthy(a.friendly) THEN <<"friendly name", a.friendly[1]>>
    ELSE IF Truthy(a.mac) THEN <<"MAC", a.mac[1]>>
    ELSE <<>>

\* lines 231-239, and the return of main
PrintSummary ==
    /\ pc = "print_summary"
    /\ out' = IF ShowSummary(args)
              THEN Append(out, [section |-> "summary",
                                filter_msg |-> FilterMsg(args),
                                total |-> Len(devices),
                                n_online |-> Len(online),
                                n_offline |-> Len(offline)])
              ELSE out
    /\ pc' = "done"
    /\ exitCode' = 0
    /\ UNCHANGED <<env, args, router, cache, requests, devices, online_macs,
                   device_statuses, online, offline, call, ret>>

Next ==
    \/ LoadModule
    \/ ParseArgs
    \/ GetDevices
    \/ Filter
    \/ GetOnlineMacs
    \/ Reconcile
    \/ PrintOnline
    \/ PrintOffline
    \/ PrintSummary

Spec == Init /\ [][Next]_vars

----------------------------------------------------------------------------
(* Claims about one run (Spec)                                             *)

Range(seq) == {seq[i] : i \in 1..Len(seq)}
Ids(devs) == {devs[i].deviceID : i \in 1..Len(devs)}
StatusIds(statuses) == {statuses[i].device.deviceID : i \in 1..Len(statuses)}
Sections(o) == [i \in 1..Len(o) |-> o[i].section]
RowIds(o) == UNION {Range(o[i].rows) : i \in {j \in 1..Len(o) : o[j].section # "summary"}}
Increasing(ids) == \A i \in 1..Len(ids) : \A j \in 1..Len(ids) : i < j => ids[i] < ids[j]
Count(seq, x) == Cardinality({i \in 1..Len(seq) : seq[i] = x})

\* the inventory main() works on, once get_devices() has returned it
Inventory == cache.value

AfterExclusion == pc \in {"filter", "get_online_macs", "reconcile", "print_online",
                          "print_offline", "print_summary", "done"}
AfterFilter == AfterExclusion /\ pc # "filter"
AfterReconcile == pc \in {"print_online", "print_offline", "print_summary", "done"}

\* the rule of the claim: a present friendlyName of length 36 with a '-' in it
UUIDNamed(d) ==
    /\ d.friendlyName # None
    /\ Len(d.friendlyName[1]) = 36
    /\ "-" \in Range(d.friendlyName[1])

PassesFilters(d) == filter_devices(<<d>>, args.friendly, args.mac) = <<d>>

\* C4: a device of the inventory is dropped before filtering if and only if
\* its friendlyName has length 36 and contains a '-' (never when it is
\* absent), whatever the flags: a dropped device is in no section and in no
\* count, and every other device that passes the filters is in the status list.
C4_ExclusionRule ==
    /\ pc = "filter" =>
          Ids(devices) = {d.deviceID : d \in {e \in Range(Inventory) : ~UUIDNamed(e)}}
    /\ AfterFilter =>
          \A d \in Range(Inventory) :
              d.deviceID \in Ids(devices) <=> (~UUIDNamed(d) /\ PassesFilters(d))
    /\ AfterReconcile =>
          /\ \A d \in Range(Inventory) :
                /\ UUIDNamed(d) =>
                      d.deviceID \notin StatusIds(online) \cup StatusIds(offline) \cup RowIds(out)
                /\ (~UUIDNamed(d) /\ PassesFilters(d)) =>
                      d.deviceID \in StatusIds(device_statuses)
          /\ \A i \in 1..Len(out) :
                out[i].section = "summary" =>
                   out[i].total = Cardinality({d \in Range(Inventory) :
                                                 ~UUIDNamed(d) /\ PassesFilters(d)})

\* a UUID-named device that passes the name filter given was left out of a
\* finished run that printed a device whose name has a '-' and 35 characters
C4_Witness ==
    /\ pc = "done"
    /\ Truthy(args.friendly)
    /\ \E d \in Range(Inventory) : UUIDNamed(d) /\ PassesFilters(d)
    /\ \E d \in Range(Inventory) :
          /\ Len(OrEmpty(d.friendlyName)) = 35
          /\ "-" \in Range(OrEmpty(d.friendlyName))
          /\ d.deviceID \in RowIds(out)

\* C5: the sections printed follow the truth table over (--online, --offline);
\* the summary line is printed if and only if neither flag is set.
C5_SectionTable ==
    pc = "done" =>
       Sections(out) =
          CASE ~args.online /\ ~args.offline -> <<"online", "offline", "summary">>
            [] args.online /\ ~args.offline  -> <<"online">>
            [] ~args.online /\ args.offline  -> <<"offline">>
            [] args.online /\ args.offline   -> <<"online", "offline">>

C5_Witness ==
    /\ pc = "done"
    /\ args.online /\ args.offline
    /\ Sections(out) = <<"online", "offline">>

\* the inventory fetch fails, or a record of the inventory does not parse
InventoryFails ==
    \/ router.inventory.k # "val"
    \/ \E i \in 1..Len(router.inventory.v) : ~parse_device(router.inventory.v[i]).ok

\* the online-MAC fetch fails
OnlineFails == router.online.k # "val"

\* C6: when the inventory fetch fails, the online-MAC fetch fails or a device
\* record does not parse, the run ends with a non-zero exit status and has
\* printed no section and no summary line; a record that does not parse is
\* never skipped.
C6_NoPartialResults ==
    /\ OnlineFails =>
          /\ pc \in {"import", "parse_args", "get_devices", "filter",
                      "get_online_macs", "crashed"}
          /\ out = <<>>
          /\ exitCode # 0
    /\ (pc \in {"filter", "get_online_macs", "reconcile", "print_online",
                 "print_offline", "print_summary", "done"} \/ out # <<>> \/ exitCode = 0) =>
          ~InventoryFails
    /\ pc = "crashed" => exitCode = 1 /\ out = <<>>

\* a run crashed on an inventory that holds a record that does not parse next
\* to one that does
C6_Witness ==
    /\ pc = "crashed"
    /\ requests # <<>>
    /\ router.inventory.k = "val"
    /\ \E i \in 1..Len(router.inventory.v) : ~parse_device(router.inventory.v[i]).ok
    /\ \E i \in 1..Len(router.inventory.v) : parse_device(router.inventory.v[i]).ok
    /\ out = <<>>

IsInventoryRequest(r) == r.action = "GetDevices3"
IsOnlineRequest(r) == r.action = "GetNodesWirelessNetworkConnections"

\* C9: no request is issued without both credentials; the inventory request
\* has completed before the online-MAC request is issued; a successful run has
\* issued the online-MAC request exactly once, also when no device is left;
\* nothing is printed before both requests have completed.
C9_StrictOrder ==
    /\ ~(env.LINKSYS_USERNAME /\ env.LINKSYS_PASSWORD) =>
          requests = <<>> /\ pc \in {"import", "crashed"}
    /\ \A i \in 1..Len(requests) :
          IsOnlineRequest(requests[i]) =>
             /\ i > 1
             /\ \E j \in 1..(i - 1) : IsInventoryRequest(requests[j]) /\ requests[j].ok
    /\ pc = "done" =>
          /\ Cardinality({i \in 1..Len(requests) : IsOnlineRequest(requests[i])}) = 1
          /\ Cardinality({i \in 1..Len(requests) : IsInventoryRequest(requests[i])}) = 1
    /\ out # <<>> =>
          /\ \E i \in 1..Len(requests) : IsInventoryRequest(requests[i]) /\ requests[i].ok
          /\ \E i \in 1..Len(requests) : IsOnlineRequest(requests[i]) /\ requests[i].ok

\* a successful run whose filters left no device of a non-empty inventory
C9_Witness ==
    /\ pc = "done"
    /\ Inventory # <<>>
    /\ devices = <<>>
    /\ Len(requests) = 2
    /\ out # <<>>

\* C10: the online and the offline list partition the reconciled devices
\* (online iff is_online), each in the inventory's order, and the summary
\* line's total is the number of filtered devices and the sum of both counts.
C10_Partition ==
    /\ AfterReconcile =>
          /\ StatusIds(device_statuses) = Ids(devices)
          /\ Len(device_statuses) = Len(devices)
          /\ \A s \in Range(device_statuses) :
                /\ Count(online, s) + Count(offline, s) = 1
                /\ Count(online, s) = 1 <=> s.is_online
          /\ Range(online) \cup Range(offline) \subseteq Range(device_statuses)
          /\ Increasing([i \in 1..Len(online) |-> online[i].device.deviceID])
          /\ Increasing([i \in 1..Len(offline) |-> offline[i].device.deviceID])
    /\ \A i \in 1..Len(out) :
          out[i].section = "summary" =>
             /\ out[i].total = Len(devices)
             /\ out[i].total = out[i].n_online + out[i].n_offline
             /\ out[i].n_online = Len(online)
             /\ out[i].n_offline = Len(offline)

\* a summary was printed over an online device and an offline device, one of
\* them without interfaces
C10_Witness ==
    /\ pc = "done"
    /\ \E i \in 1..Len(out) : out[i].section = "summary" /\ out[i].total = 2
    /\ Len(online) = 1
    /\ Len(offline) = 1
    /\ offline[1].device.knownInterfaces = <<>>

----------------------------------------------------------------------------
(* get_device_status on its own (SpecStatus)                               *)

Credentials == [LINKSYS_USERNAME |-> TRUE, LINKSYS_PASSWORD |-> TRUE]
SilentRouter == [inventory |-> [k |-> "neterr"], online |-> [k |-> "neterr"]]

\* the program state of a specification that runs one function only
Loaded ==
    /\ env = Credentials
    /\ router = SilentRouter
    /\ Idle

TestMacs == {MacUpper, MacLower, MacOther}
MacLists(n) == UNION {[1..m -> TestMacs] : m \in 0..n}
ConnectionLists == {<<>>, <<MacUpper>>, <<MacOther, MacLower>>}

Parsed(raw) == parse_device(raw).device

InitStatus ==
    /\ pc = "call"
    /\ Loaded
    /\ \E macs \in MacLists(MaxInterfaces), conns \in ConnectionLists,
          S \in SUBSET TestMacs :
          call = [device |-> Parsed(RawDeviceWith(1, Some(NameTv), macs, conns)),
                  macs |-> S]
    /\ ret = <<>>

ApplyStatus ==
    /\ pc = "call"
    /\ ret' = get_device_status(call.device, call.macs)
    /\ pc' = "ret"
    /\ UNCHANGED <<mainVars, call>>

NextStatus == ApplyStatus

SpecStatus == InitStatus /\ [][NextStatus]_vars

\* the positions of the known interfaces whose MAC address is online
OnlinePositions(d, S) ==
    {i \in 1..Len(d.knownInterfaces) : d.knownInterfaces[i].macAddress \in S}

\* the k-th smallest element of a set of numbers
Kth(set, k) == CHOOSE i \in set : Cardinality({j \in set : j <= i}) = k

WithConnections(d, conns) ==
    [d EXCEPT !.connections = [i \in 1..Len(conns) |-> Connection(RawConnection(conns[i]))]]

\* C1: get_device_status(d, S) returns as online_interfaces exactly the
\* knownInterfaces of d whose macAddress is in S, in their order; is_online is
\* true iff that list is non-empty; a device without knownInterfaces is
\* offline; the connections of d have no influence.
C1_StatusIsIntersection ==
    pc = "ret" =>
       LET d == call.device
           S == call.macs
           pos == OnlinePositions(d, S)
       IN  /\ ret.device = d
           /\ Len(ret.online_interfaces) = Cardinality(pos)
           /\ \A k \in 1..Cardinality(pos) :
                 ret.online_interfaces[k] = d.knownInterfaces[Kth(pos, k)]
           /\ ret.is_online <=> (pos # {})
           /\ d.knownInterfaces = <<>> => ~ret.is_online
           /\ \A conns \in ConnectionLists :
                 LET other == get_device_status(WithConnections(d, conns), S)
                 IN  /\ other.is_online = ret.is_online
                     /\ other.online_interfaces = ret.online_interfaces

\* a device with the second of its two interfaces online, one of whose
\* connections carries an online MAC address
C1_Witness ==
    /\ pc = "ret"
    /\ Len(call.device.knownInterfaces) = 2
    /\ Len(ret.online_interfaces) = 1
    /\ ret.online_interfaces[1] = call.device.knownInterfaces[2]
    /\ ret.is_online
    /\ \E i \in 1..Len(call.device.connections) :
          call.device.connections[i].macAddress \in call.macs

----------------------------------------------------------------------------
(* filter_devices on its own (SpecFilter)                                  *)

FilterNames == {None, Some(NameTv), Some(<<"a", "T", "V", "b">>)}
FilterMacLists == {<<>>, <<MacUpper>>, <<MacLower>>, <<MacOther, MacUpper>>}
FilterKinds == FilterNames \X FilterMacLists
FilterKindLists(n) == UNION {[1..m -> FilterKinds] : m \in 0..n}

NameArgs == {None, Some(<<>>), Some(<<"t", "v">>), Some(<<"A", "t">>)}
MacFilterArgs == {None, Some(<<>>), Some(MacLower), Some(MacUpper), Some(MacMixed)}

InitFilter ==
    /\ pc = "call"
    /\ Loaded
    /\ \E kinds \in FilterKindLists(MaxDevices), n \in NameArgs, m \in MacFilterArgs :
          call = [devices |-> [i \in 1..Len(kinds) |->
                                 Parsed(RawDevice(i, kinds[i][1], kinds[i][2]))],
                  friendly_name |-> n,
                  mac_address |-> m]
    /\ ret = <<>>

ApplyFilter ==
    /\ pc = "call"
    /\ LET D == call.devices
           n == call.friendly_name
           m == call.mac_address
       IN  ret' = [by_name |-> filter_devices(D, n, None),
                   by_mac |-> filter_devices(D, None, m),
                   name_then_mac |->
                      filter_devices(filter_devices(D, n, None), None, m),
                   mac_then_name |->
                      filter_devices(filter_devices(D, None, m), n, None),
                   both |-> filter_devices(D, n, m)]
    /\ pc' = "ret"
    /\ UNCHANGED <<mainVars, call>>

NextFilter == ApplyFilter

SpecFilter == InitFilter /\ [][NextFilter]_vars

\* equal when letter case is ignored
SameIgnoringCase(a, b) == Lower(a) = Lower(b)

\* C2: filter_devices(D, mac_address=m) keeps a device if and only if one of
\* its knownInterfaces has a macAddress equal to m when letter case is
\* ignored, whatever the letter case of m and of the stored macAddress.
C2_MacCaseInsensitive ==
    (pc = "ret" /\ Truthy(call.mac_address)) =>
       Ids(ret.by_mac) =
          {d.deviceID : d \in
              {e \in Range(call.devices) :
                  \E i \in 1..Len(e.knownInterfaces) :
                      SameIgnoringCase(e.knownInterfaces[i].macAddress,
                                       call.mac_address[1])}}

\* the name test of the claim; no name, or an empty one, is no test
NameTestOf(d, n) ==
    Truthy(n) => Contains(Lower(OrEmpty(d.friendlyName)), Lower(n[1]))

\* the MAC test filter_devices applies; no MAC, or an empty one, is no test
MacTestOf(d, m) ==
    Truthy(m) => \E i \in 1..Len(d.knownInterfaces) :
                    d.knownInterfaces[i].macAddress = Upper(m[1])

\* C3: filtering by name then by MAC, by MAC then by name, and by both at
\* once give the same list: the devices of D, in the order of D, that pass
\* the name test and the MAC test; it is the empty list when none does.
C3_FilterCommutes ==
    pc = "ret" =>
       LET D == call.devices
           want == {d \in Range(D) : NameTestOf(d, call.friendly_name)
                                     /\ MacTestOf(d, call.mac_address)}
       IN  /\ ret.name_then_mac = ret.mac_then_name
           /\ ret.name_then_mac = ret.both
           /\ Range(ret.both) = want
           /\ Len(ret.both) = Cardinality(want)
           /\ Increasing([i \in 1..Len(ret.both) |-> ret.both[i].deviceID])
           /\ Ids(ret.both) = Ids(ret.by_name) \cap Ids(ret.by_mac)
           /\ want = {} => ret.both = <<>>

\* both filters were given, the name filter alone keeps two devices and the
\* two filters together keep the second of them only
C3_Witness ==
    /\ pc = "ret"
    /\ Truthy(call.friendly_name) /\ Truthy(call.mac_address)
    /\ Len(ret.by_name) = 2
    /\ Len(ret.by_mac) = 1
    /\ Len(ret.both) = 1
    /\ ret.both[1] = call.devices[2]

----------------------------------------------------------------------------
(* parse_device on its own (SpecParse)                                     *)

DeviceKeys ==
    {"deviceID", "lastChangeRevision", "model", "unit", "isAuthority", "nodeType",
     "friendlyName", "knownInterfaces", "connections", "properties",
     "maxAllowedProperties"}

\* a key no model declares
UnknownKey == "vendorExtension"

RecordKeys == DeviceKeys \cup {UnknownKey}

\* the value a key carries when nothing is wrong with it
BaseValue(key) ==
    CASE key = "deviceID"             -> V(1)
      [] key = "lastChangeRevision"   -> V(1)
      [] key = "model"                -> V([deviceType |-> V("Mobile")])
      [] key = "unit"                 -> V(EmptyDict)
      [] key = "isAuthority"          -> V(FALSE)
      [] key = "nodeType"             -> V("Slave")
      [] key = "friendlyName"         -> V(NameTv)
      [] key = "knownInterfaces"      -> V(<<>>)
      [] key = "connections"          -> V(<<>>)
      [] key = "properties"           -> V(<<>>)
      [] key = "maxAllowedProperties" -> V(16)
      [] key = UnknownKey             -> V("x")

Variant(val, faulty) == [val |-> val, faulty |-> faulty]

\* other values a key may carry.  faulty: the value is of the wrong type for
\* its field, or it holds an element or an object in which a required field
\* is absent or a field is of the wrong type.
Variants(key) ==
    CASE key \in {"deviceID", "lastChangeRevision", "isAuthority",
                  "maxAllowedProperties"} ->
            <<Variant(Bad, TRUE), Variant(Null, TRUE)>>
      [] key \in {"nodeType", "friendlyName"} ->
            <<Variant(Bad, TRUE), Variant(Null, FALSE)>>
      [] key = "model" ->
            <<Variant(Bad, TRUE),
              Variant(V(EmptyDict), TRUE),
              Variant(V([deviceType |-> Bad]), TRUE),
              Variant(V([deviceType |-> V("Mobile"), manufacturer |-> Bad]), TRUE),
              Variant(V([deviceType |-> V("Mobile"), modelNumber |-> Null,
                         vendorExtension |-> Bad]), FALSE)>>
      [] key = "unit" ->
            <<Variant(Null, TRUE),
              Variant(V([firmwareDate |-> Bad]), TRUE),
              Variant(V([serialNumber |-> V("s"), vendorExtension |-> V("x")]), FALSE)>>
      [] key = "knownInterfaces" ->
            <<Variant(Bad, TRUE),
              Variant(V(<<Bad>>), TRUE),
              Variant(V(<<RawInterface(MacUpper),
                          V([interfaceType |-> V("Wireless")])>>), TRUE),
              Variant(V(<<V([macAddress |-> V(MacUpper),
                             interfaceType |-> V("Wireless"),
                             band |-> Bad])>>), TRUE),
              Variant(V(<<V([macAddress |-> V(MacUpper),
                             interfaceType |-> V("Wireless"),
                             vendorExtension |-> Null])>>), FALSE)>>
      [] key = "connections" ->
            <<Variant(Null, TRUE),
              Variant(V(<<V(EmptyDict)>>), TRUE),
              Variant(V(<<V([macAddress |-> V(MacUpper), ipAddress |-> Bad])>>), TRUE),
              Variant(V(<<RawConnection(MacUpper)>>), FALSE)>>
      [] key = "properties" ->
            <<Variant(Bad, TRUE),
              Variant(V(<<V([name |-> V("n")])>>), TRUE),
              Variant(V(<<V([name |-> V("n"), value |-> V("v")])>>), FALSE)>>
      [] key = UnknownKey ->
            <<Variant(Bad, FALSE), Variant(Null, FALSE)>>

VariantChoices ==
    {<<key, n>> : key \in RecordKeys, n \in 1..5} \cap
    {p \in RecordKeys \X (1..5) : p[2] <= Len(Variants(p[1]))}

\* the sets of at most n variants, no two of them of one key
RECURSIVE VariantSets(_)
VariantSets(n) ==
    IF n = 0 THEN {{}}
    ELSE LET smaller == VariantSets(n - 1)
         IN  smaller \cup
             {s \cup {p} : <<s, p>> \in
                 {sp \in smaller \X VariantChoices :
                     \A q \in sp[1] : q[1] # sp[2][1]}}

TestVariantSets == VariantSets(MaxDefects)

\* the record that carries the keys of `present`, each with its base value
\* unless `variants` names another value for it
RecordOf(present, variants) ==
    [key \in present |->
        IF \E p \in variants : p[1] = key
        THEN Variants(key)[(CHOOSE p \in variants : p[1] = key)[2]].val
        ELSE BaseValue(key)]

InitParse ==
    /\ pc = "call"
    /\ Loaded
    /\ \E present \in SUBSET RecordKeys, variants \in TestVariantSets :
          /\ {p[1] : p \in variants} \subseteq present
          /\ call = [present |-> present,
                     variants |-> variants,
                     device |-> RecordOf(present, variants)]
    /\ ret = <<>>

ApplyParse ==
    /\ pc = "call"
    /\ ret' = parse_device(call.device)
    /\ pc' = "ret"
    /\ UNCHANGED <<mainVars, call>>

NextParse == ApplyParse

SpecParse == InitParse /\ [][NextParse]_vars

\* the fields the claim lists as required
ListedRequired ==
    {"deviceID", "lastChangeRevision", "model", "isAuthority", "maxAllowedProperties"}

\* the fields that have no default in class Device and the keys parse_device
\* indexes
DeclaredRequired ==
    ListedRequired \cup {"unit", "knownInterfaces", "connections", "properties"}

AllAbsent(rec) == \A f \in DOMAIN rec : rec[f] = None

\* C7, as claimed: a record that carries only deviceID, lastChangeRevision,
\* model with deviceType, isAuthority and maxAllowedProperties parses.
C7_ListedFieldsSuffice ==
    (pc = "ret" /\ call.present = ListedRequired /\ call.variants = {}) => ret.ok

\* C7, amended: a record that carries the fields without a default (those
\* listed and unit, knownInterfaces, connections, properties) and nothing else
\* parses, every optional field absent and every list empty; parsing fails
\* only when such a field is absent or a field that is present, at the top or
\* in a nested object, is of the wrong type or lacks a required field of its
\* own; an unknown field never makes it fail.
C7_ParseDefaults ==
    pc = "ret" =>
       /\ (call.present = DeclaredRequired /\ call.variants = {}) =>
             /\ ret.ok
             /\ ret.device.nodeType = None
             /\ ret.device.friendlyName = None
             /\ ret.device.model.deviceType = "Mobile"
             /\ AllAbsent([f \in DOMAIN ret.device.model \ {"deviceType"} |->
                              ret.device.model[f]])
             /\ AllAbsent(ret.device.unit)
             /\ ret.device.knownInterfaces = <<>>
             /\ ret.device.connections = <<>>
             /\ ret.device.properties = <<>>
       /\ ~ret.ok =>
             \/ ~(DeclaredRequired \subseteq call.present)
             \/ \E p \in call.variants : Variants(p[1])[p[2]].faulty
       /\ (ret.ok /\ "friendlyName" \notin call.present) =>
             ret.device.friendlyName = None

\* the record with the required fields only was parsed
C7_Witness ==
    /\ pc = "ret"
    /\ call.present = DeclaredRequired
    /\ call.variants = {}
    /\ ret.ok

----------------------------------------------------------------------------
(* get_devices called again and again in one process (SpecCache)           *)

CacheReplies ==
    {[k |-> "neterr"], Bad,
     InventoryOf(<<>>),
     InventoryOf(<<"tv">>),
     InventoryOf(<<"nounit">>),
     InventoryOf(<<"bare", "tv">>)}

InitCache ==
    /\ pc = "running"
    /\ env = Credentials
    /\ router \in [inventory : CacheReplies, online : {[k |-> "neterr"]}]
    /\ Idle
    /\ call = <<>>
    /\ ret = <<>>

\* one call of get_devices(); call is the log of the calls made so far
CallGetDevices ==
    /\ pc = "running"
    /\ Len(call) < MaxCalls
    /\ LET r == get_devices(cache, router.inventory)
       IN  /\ cache' = r.cache
           /\ requests' = IF r.sent
                           THEN Append(requests, Request("GetDevices3", r.ok))
                           ELSE requests
           /\ call' = Append(call, [ok |-> r.ok, sent |-> r.sent, value |-> r.value])
           /\ ret' = r.value
    /\ UNCHANGED <<pc, env, args, router, devices, online_macs, device_statuses,
                   online, offline, out, exitCode>>

\* the router's inventory changes between two calls
RouterChanges ==
    /\ pc = "running"
    /\ \E reply \in CacheReplies \ {router.inventory} :
          router' = [router EXCEPT !.inventory = reply]
    /\ UNCHANGED <<pc, env, args, cache, requests, devices, online_macs,
                   device_statuses, online, offline, out, exitCode, call, ret>>

NextCache == CallGetDevices \/ RouterChanges

SpecCache == InitCache /\ [][NextCache]_vars

\* C8, as claimed: over any sequence of calls the inventory request is issued
\* at most once and every call returns the list of the first call.
C8_AtMostOneRequest ==
    /\ Len(requests) <= 1
    /\ \A i \in 1..Len(call) : call[i].value = call[1].value

\* C8, amended: from the first call that returns a device list on, no
\* inventory request is issued, every call returns that same list and the
\* cache keeps it; a call that raises stores nothing, and the call after it
\* issues the request again.
C8_MemoizedOnceFetched ==
    /\ \A i \in 1..Len(requests) : requests[i].ok => i = Len(requests)
    /\ \A i \in 1..Len(call) : \A j \in 1..Len(call) :
          (i < j /\ call[i].ok) =>
             /\ call[j].ok
             /\ ~call[j].sent
             /\ call[j].value = call[i].value
    /\ \A i \in 1..Len(call) :
          /\ call[i].ok => cache.hit /\ cache.value = call[i].value
          /\ ~call[i].ok => call[i].sent
          /\ (i > 1 /\ ~call[i - 1].ok) => call[i].sent
    /\ Len(requests) = Cardinality({i \in 1..Len(call) : call[i].sent})

\* a second call returned the list of the first although the router had
\* stopped answering in between
C8_Witness ==
    /\ Len(call) >= 2
    /\ call[1].ok /\ call[1].value # <<>>
    /\ call[2].ok /\ ~call[2].sent /\ call[2].value = call[1].value
    /\ router.inventory.k = "neterr"
    /\ Len(requests) = 1

====
